---- MODULE Spec2Model ----
(***************************************************************************)
(* Model of deeplytough/datasets/vertex.py (class Vertex):                 *)
(*   get_structures     the manifest builder                                *)
(*   preprocess_once    the download/extraction fan-out and featurization   *)
(*   evaluate_matching  the per-protein-pair aggregation of matcher scores  *)
(* Python strings are sequences of one-character strings, so that slicing,  *)
(* indexing, lower(), int() and the lexicographic < act as they do in the   *)
(* code.  Literal pieces of an f-string are kept as single tokens.          *)
(***************************************************************************)
EXTENDS Integers, Sequences, FiniteSets, TLC

VARIABLES
    file,          \* protein_pairs.tsv: a sequence of lines (tokens 0, 2, 5, 7, -1)
    gs_fit,        \* get_structures: the fit_to_tough_clusters argument
    gs_out,        \* get_structures: "idle", or the outcome of the call
    pre_pc,        \* preprocess_once: where the driver is
    pre_exc,       \* preprocess_once: where the exception it raised came from
    pool_size,     \* preprocess_once: the worker processes of the pool
    pre_entries,   \* preprocess_once: the entries given to executor.map
    task,          \* preprocess_once: per entry, the state of its task
    collected,     \* preprocess_once: results the driver's for loop has taken
    featurizer_calls, \* preprocess_once: the calls of htmd_featurizer
    descriptor_entries, \* evaluate_matching: the code5 of each descriptor entry
    matcher,       \* evaluate_matching: the matcher handed in
    ev_pc,         \* evaluate_matching: "parse", "keys", "returned" or "raised"
    ev_exc,        \* evaluate_matching: the exception that ended it
    ev_i,          \* evaluate_matching: lines of the file read so far
    prot_keys,     \* evaluate_matching: the keys of prot_pairs, in insertion order
    prot_pairs,    \* evaluate_matching: key -> list of pairs of indices
    prot_positives, \* evaluate_matching: key -> label
    ev_k,          \* evaluate_matching: keys the second loop has finished
    positives,     \* evaluate_matching: the list positives
    scores,        \* evaluate_matching: the list scores
    keys_out,      \* evaluate_matching: the list keys_out
    calls,         \* evaluate_matching: the complete_match calls made so far
    unique_idxs,   \* evaluate_matching: unique_idxs of the last iteration
    complete_scores, \* evaluate_matching: complete_scores of the last iteration
    cells,         \* evaluate_matching: complete_scores[i, j] of each pair, last iteration
    results        \* evaluate_matching: the returned dict, or "none"

gsvars  == <<gs_fit, gs_out>>
prevars == <<pre_pc, pre_exc, pool_size, pre_entries, task, collected, featurizer_calls>>
evvars  == <<descriptor_entries, matcher, ev_pc, ev_exc, ev_i, prot_keys, prot_pairs,
             prot_positives, ev_k, positives, scores, keys_out, calls, unique_idxs,
             complete_scores, cells, results>>
vars    == <<file, gsvars, prevars, evvars>>

----------------------------------------------------------------------------
(* Bounds of the model *)

\* longest metadata file (header lines included) given to get_structures
MaxFileLines == 4

\* most data lines of the metadata file given to preprocess_once
MaxPreDataLines == 1

\* most data lines of the metadata file given to evaluate_matching
MaxEvalDataLines == 3

\* most worker processes of the pool (ProcessPoolExecutor() takes the
\* machine's processor count)
MaxWorkers == 2

----------------------------------------------------------------------------
(* Strings *)

Min(a, b) == IF a < b THEN a ELSE b

\* str.lower() on one character
LowerChar(c) ==
    CASE c = "A" -> "a"
      [] c = "B" -> "b"
      [] c = "C" -> "c"
      [] c = "P" -> "p"
      [] OTHER -> c

\* str.lower()
Lower(s) == [k \in 1..Len(s) |-> LowerChar(s[k])]

\* s[:n]: a slice never raises, it stops at the end of the string
Prefix(s, n) == SubSeq(s, 1, Min(n, Len(s)))

Digits == {"0", "1", "2", "3", "4", "5", "6", "7", "8", "9"}

\* int(c) for a one-character string: the digit's value (ValueError otherwise)
IntOfChar(c) ==
    CASE c = "0" -> 0 [] c = "1" -> 1 [] c = "2" -> 2 [] c = "3" -> 3
      [] c = "4" -> 4 [] c = "5" -> 5 [] c = "6" -> 6 [] c = "7" -> 7
      [] c = "8" -> 8 [] c = "9" -> 9

\* f'{n}' for an int 0..9
FormatInt(n) ==
    CASE n = 0 -> <<"0">> [] n = 1 -> <<"1">> [] n = 2 -> <<"2">> [] n = 3 -> <<"3">>
      [] n = 4 -> <<"4">> [] n = 5 -> <<"5">> [] n = 6 -> <<"6">> [] n = 7 -> <<"7">>
      [] n = 8 -> <<"8">> [] n = 9 -> <<"9">>

\* code point order of the characters that occur in UniProt ids
Ord(c) ==
    CASE c = "0" -> 48 [] c = "1" -> 49 [] c = "2" -> 50 [] c = "9" -> 57
      [] c = "P" -> 80 [] c = "Q" -> 81
      [] OTHER -> 0

\* Python's s < t on strings: lexicographic, a proper prefix is smaller
RECURSIVE StrLess(_, _)
StrLess(s, t) ==
    IF t = <<>> THEN FALSE
    ELSE IF s = <<>> THEN TRUE
    ELSE IF Ord(Head(s)) # Ord(Head(t)) THEN Ord(Head(s)) < Ord(Head(t))
    ELSE StrLess(Tail(s), Tail(t))

\* every ordering of a finite set as a sequence (the iteration order of a
\* Python set is not specified)
Orderings(S) ==
    {s \in [1..Cardinality(S) -> S] : \A i, j \in 1..Cardinality(S) : s[i] = s[j] => i = j}

RECURSIVE SeqsUpTo(_, _)
SeqsUpTo(S, n) ==
    IF n = 0 THEN {<<>>}
    ELSE LET shorter == SeqsUpTo(S, n - 1)
         IN  shorter \cup {Append(s, x) : s \in {t \in shorter : Len(t) = n - 1}, x \in S}

----------------------------------------------------------------------------
(* The metadata file *)

Code_1abcA1 == <<"1", "a", "b", "c", "A", "1">>
Code_1ABCA2 == <<"1", "A", "B", "C", "A", "2">>
Code_2xyzB1 == <<"2", "x", "y", "z", "B", "1">>
Code_3def1  == <<"3", "d", "e", "f", "1">>       \* 4-character id + one digit
Id_P1  == <<"P", "1">>
Id_P2  == <<"P", "2">>
Id_P10 == <<"P", "1", "0">>

Line(t0, t2, t5, t7, last) == [tok0 |-> t0, tok2 |-> t2, tok5 |-> t5, tok7 |-> t7, cls |-> last]

L1 == Line(Code_1abcA1, Id_P1, Code_2xyzB1, Id_P2, 1)
L2 == Line(Code_2xyzB1, Id_P2, Code_1ABCA2, Id_P1, 1)
L3 == Line(Code_1abcA1, Id_P1, Code_2xyzB1, Id_P2, 0)
L4 == Line(Code_1ABCA2, Id_P1, Code_1abcA1, Id_P10, 2)
L5 == Line(Code_3def1, Id_P2, Code_2xyzB1, Id_P2, 0)
L6 == Line(Code_2xyzB1, Id_P10, Code_1abcA1, Id_P1, 0)

\* the lines of the files given to get_structures
GSLines == {L1, L2, L4, L5}

\* a slip that takes one header line for two
DataLinesOneHeader(f) == {k \in 1..Len(f) : k - 1 > 0}

\* the lines after the two header lines: enumerate(f.readlines()) with i > 1
DataLines(f) == {k \in 1..Len(f) : k - 1 > 1}

----------------------------------------------------------------------------
(* get_structures *)

ROOT     == "$STRUCTURE_DATA_DIR/Vertex"
NPZ_ROOT == "$STRUCTURE_DATA_DIR/processed/htmd/Vertex"

\* the set of (pdbChain, uniprot) tuples read from the file
VertexPdbs(f) ==
    UNION {{<<Lower(f[k].tok0), f[k].tok2>>, <<Lower(f[k].tok5), f[k].tok7>>} : k \in DataLines(f)}

\* int(code5[5]): the exception it raises, or "none"
PocketIndexError(code5) ==
    IF Len(code5) < 6 THEN "IndexError"
    ELSE IF code5[6] \notin Digits THEN "ValueError"
    ELSE "none"

PocketIndex(code5) == IntOfChar(code5[6])

\* a slip that keeps the chain letter in the directory and file names
PdbCodeKeepsChain(code5) == Prefix(code5, 5)

\* pdb_code = code5[:4]
PdbCode(code5) == Prefix(code5, 4)

LiteralKey_code5 == <<"c", "o", "d", "e", "5">>

\* what building the entry of one tuple raises, or "none"
EntryError(t, fit, code5_to_seqclust) ==
    IF PocketIndexError(t[1]) # "none" THEN PocketIndexError(t[1])
    ELSE IF fit /\ LiteralKey_code5 \notin DOMAIN code5_to_seqclust THEN "KeyError"
    ELSE "none"

\* the entry dict of one tuple
Entry(t, fit, code5_to_seqclust) ==
    LET code5    == t[1]
        pdb_code == PdbCode(code5)
        base     == [protein      |-> <<ROOT, "/">> \o pdb_code \o <<"/">> \o pdb_code \o <<"_clean.pdb">>,
                     pocket       |-> <<ROOT, "/">> \o pdb_code \o <<"/">> \o pdb_code \o <<"_site_">>
                                         \o FormatInt(PocketIndex(code5)) \o <<".pdb">>,
                     ligand       |-> <<ROOT, "/">> \o pdb_code \o <<"/">> \o pdb_code \o <<"_lig_">>
                                         \o FormatInt(PocketIndex(code5)) \o <<".pdb">>,
                     protein_htmd |-> <<NPZ_ROOT, "/">> \o pdb_code \o <<"/">> \o pdb_code \o <<"_clean.npz">>,
                     code5        |-> code5,
                     code         |-> Prefix(code5, 4),
                     uniprot      |-> t[2]]
    IN  IF fit
        THEN [f \in DOMAIN base \cup {"seqclust"} |->
                 IF f = "seqclust" THEN code5_to_seqclust[LiteralKey_code5] ELSE base[f]]
        ELSE base

\* misc.utils.get_clusters: a cluster id for every code of the list
GetClusters(code5_list) ==
    [c \in {code5_list[k] : k \in 1..Len(code5_list)} |-> <<"cluster-of">> \o c]

\* [e['code5'] for e in vertex_pdbs]: e is a tuple, and a tuple indexed by a
\* string raises TypeError; only the empty set yields a list
Code5ListError(pdbs) == IF pdbs # {} THEN "TypeError" ELSE "none"

\* the entries loop over one iteration order: the first failing tuple raises
RECURSIVE BuildEntries(_, _, _)
BuildEntries(order, fit, c2s) ==
    IF order = <<>> THEN [status |-> "returned", entries |-> <<>>, exc |-> "none"]
    ELSE IF EntryError(Head(order), fit, c2s) # "none"
         THEN [status |-> "raised", entries |-> <<>>, exc |-> EntryError(Head(order), fit, c2s)]
    ELSE LET rest == BuildEntries(Tail(order), fit, c2s)
         IN  IF rest.status = "raised" THEN rest
             ELSE [rest EXCEPT !.entries = <<Entry(Head(order), fit, c2s)>> \o rest.entries]

\* every outcome get_structures can have on a file
GetStructuresOutcomes(f, fit) ==
    LET pdbs == VertexPdbs(f)
    IN  IF fit /\ Code5ListError(pdbs) # "none"
        THEN {[status |-> "raised", entries |-> <<>>, exc |-> Code5ListError(pdbs)]}
        ELSE {BuildEntries(order, fit, IF fit THEN GetClusters(<<>>) ELSE <<>>) :
                  order \in Orderings(pdbs)}

GsIdle == [status |-> "idle", entries |-> <<>>, exc |-> "none"]

GsUnused == gs_fit = FALSE /\ gs_out = GsIdle

PreUnused ==
    /\ pre_pc = "unused"
    /\ pre_exc = "none"
    /\ pool_size = 1
    /\ pre_entries = <<>>
    /\ task = <<>>
    /\ collected = 0
    /\ featurizer_calls = <<>>

NoResults == [pairs |-> <<>>, scores |-> <<>>, pos_mask |-> <<>>]

EvState(pc) ==
    /\ ev_pc = pc
    /\ ev_exc = "none"
    /\ ev_i = 0
    /\ prot_keys = <<>>
    /\ prot_pairs = <<>>
    /\ prot_positives = <<>>
    /\ ev_k = 0
    /\ positives = <<>>
    /\ scores = <<>>
    /\ keys_out = <<>>
    /\ calls = <<>>
    /\ unique_idxs = <<>>
    /\ complete_scores = <<>>
    /\ cells = <<>>
    /\ results = NoResults

EvUnused == descriptor_entries = <<>> /\ matcher = 0 /\ EvState("unused")

InitGS ==
    /\ file \in SeqsUpTo(GSLines, MaxFileLines)
    /\ gs_fit \in BOOLEAN
    /\ gs_out = GsIdle
    /\ PreUnused
    /\ EvUnused

GetStructuresReturns ==
    /\ gs_out.status = "idle"
    /\ \E o \in GetStructuresOutcomes(file, gs_fit) :
          /\ o.status = "returned"
          /\ gs_out' = o
    /\ UNCHANGED <<file, gs_fit, prevars, evvars>>

GetStructuresRaises ==
    /\ gs_out.status = "idle"
    /\ \E o \in GetStructuresOutcomes(file, gs_fit) :
          /\ o.status = "raised"
          /\ gs_out' = o
    /\ UNCHANGED <<file, gs_fit, prevars, evvars>>

NextGS == GetStructuresReturns \/ GetStructuresRaises

SpecGS == InitGS /\ [][NextGS]_vars

----------------------------------------------------------------------------
(* Properties of get_structures *)

\* the (code, uniprot) tuples of the entries of a result
EntryTuples(entries) == {<<entries[k].code5, entries[k].uniprot>> : k \in 1..Len(entries)}

\* the tuples the data lines of a file name: fields 1/3 and 6/8 of every line
\* after the second, the code lowercased
FileTuples(f) ==
    {<<Lower(f[k].tok0), f[k].tok2>> : k \in 3..Len(f)}
        \cup {<<Lower(f[k].tok5), f[k].tok7>> : k \in 3..Len(f)}

\* C6: a returned manifest holds exactly one entry per distinct (lowercased
\* code, UniProt id) tuple of fields 1/3 and 6/8 of the data lines: nothing
\* from the two header lines, repeated tuples once, and each entry's code5,
\* code and uniprot are those of its tuple.
Thm_C6 ==
    gs_out.status = "returned" =>
        /\ EntryTuples(gs_out.entries) = FileTuples(file)
        /\ Len(gs_out.entries) = Cardinality(FileTuples(file))
        /\ \A k \in 1..Len(gs_out.entries) :
              gs_out.entries[k].code = SubSeq(gs_out.entries[k].code5, 1, 4)

\* C6 witness: a returned manifest of a file whose header names a tuple that
\* no data line names and whose two data lines share a tuple.
Wit_C6 ==
    /\ gs_out.status = "returned"
    /\ Len(file) = 4
    /\ Len(gs_out.entries) = 3
    /\ <<Lower(file[1].tok0), file[1].tok2>> \notin EntryTuples(gs_out.entries)
    /\ <<Lower(file[3].tok0), file[3].tok2>> = <<Lower(file[4].tok5), file[4].tok7>>

\* the paths the templates give for a 4-character id and a pocket digit
PathsOf(id4, digit) ==
    [protein      |-> <<ROOT, "/">> \o id4 \o <<"/">> \o id4 \o <<"_clean.pdb">>,
     pocket       |-> <<ROOT, "/">> \o id4 \o <<"/">> \o id4 \o <<"_site_", digit, ".pdb">>,
     ligand       |-> <<ROOT, "/">> \o id4 \o <<"/">> \o id4 \o <<"_lig_", digit, ".pdb">>,
     protein_htmd |-> <<NPZ_ROOT, "/">> \o id4 \o <<"/">> \o id4 \o <<"_clean.npz">>]

HasPaths(e, id4, digit) ==
    \A p \in {"protein", "pocket", "ligand", "protein_htmd"} : e[p] = PathsOf(id4, digit)[p]

\* a code the derivation needs: a digit at index 5 (the 6th character)
SixthIsDigit(code5) == Len(code5) >= 6 /\ code5[6] \in Digits

\* C7 as stated: for every 5-character code (4-character id + pocket digit)
\* the default call yields an entry whose pocket and ligand paths are built
\* from the id and the 5th character; the derivation succeeds.
Orig_C7 ==
    (gs_out.status # "idle" /\ ~gs_fit) =>
        \A t \in FileTuples(file) :
            (Len(t[1]) = 5 /\ t[1][5] \in Digits) =>
                \E k \in 1..Len(gs_out.entries) :
                    /\ gs_out.entries[k].code5 = t[1]
                    /\ HasPaths(gs_out.entries[k], SubSeq(t[1], 1, 4), t[1][5])

\* C7 amended: the pocket index is the character at index 5 (the 6th).  In
\* the default mode the call returns exactly when every code has a digit
\* there; every returned entry has pocket and ligand paths built from the
\* first four characters and that digit, protein and feature paths from the
\* first four characters alone.
Thm_C7 ==
    /\ (gs_out.status # "idle" /\ ~gs_fit) =>
          (gs_out.status = "returned" <=> \A t \in FileTuples(file) : SixthIsDigit(t[1]))
    /\ gs_out.status = "returned" =>
          \A k \in 1..Len(gs_out.entries) :
              LET c == gs_out.entries[k].code5
              IN  SixthIsDigit(c) /\ HasPaths(gs_out.entries[k], SubSeq(c, 1, 4), c[6])

\* C7 witness: a returned manifest with two pockets of one PDB id.
Wit_C7 ==
    /\ gs_out.status = "returned"
    /\ \E j, k \in 1..Len(gs_out.entries) :
          /\ gs_out.entries[j].code = gs_out.entries[k].code
          /\ gs_out.entries[j].pocket # gs_out.entries[k].pocket
          /\ gs_out.entries[j].protein = gs_out.entries[k].protein

\* C8: with fit_to_tough_clusters the call returns the entries of the default
\* call, each with the cluster id the resolver gave to its own code.
Claim_C8 ==
    (gs_out.status # "idle" /\ gs_fit /\ \A t \in FileTuples(file) : SixthIsDigit(t[1])) =>
        /\ gs_out.status = "returned"
        /\ EntryTuples(gs_out.entries) = FileTuples(file)
        /\ \A k \in 1..Len(gs_out.entries) :
              /\ "seqclust" \in DOMAIN gs_out.entries[k]
              /\ gs_out.entries[k].seqclust = <<"cluster-of">> \o gs_out.entries[k].code5

----------------------------------------------------------------------------
(* preprocess_once and _download_pdb_and_extract_pocket *)

RECURSIVE LastSlash(_, _)
LastSlash(path, k) ==
    IF k = 0 THEN 0 ELSE IF path[k] = "/" THEN k ELSE LastSlash(path, k - 1)

\* os.path.dirname: what precedes the last "/"
Dirname(path) == SubSeq(path, 1, LastSlash(path, Len(path)) - 1)

\* entry_dir = os.path.dirname(entry['protein'])
EntryDir(entry) == Dirname(entry.protein)

\* fname = f'{entry_dir}/{code}.pdb'
Fname(entry) == EntryDir(entry) \o <<"/">> \o entry.code \o <<".pdb">>

\* the paths a step of the task writes: makedirs creates entry_dir,
\* urlretrieve writes fname, run_one(fname, entry_dir) writes into entry_dir
StepWrites(entry, st) ==
    CASE st = "makedirs" -> {EntryDir(entry)}
      [] st = "download" -> {Fname(entry)}
      [] st = "extract"  -> {EntryDir(entry)}

AfterStep(st) ==
    CASE st = "makedirs" -> "download"
      [] st = "download" -> "extract"
      [] st = "extract"  -> "return"

\* what a step raises when it fails
StepException(st) ==
    CASE st = "makedirs" -> "PermissionError"
      [] st = "download" -> "URLError"
      [] st = "extract"  -> "ValueError"

\* the classes an exception is an instance of
ExceptionClasses(exc) ==
    CASE exc = "PermissionError" -> {"PermissionError", "OSError", "Exception"}
      [] exc = "URLError"        -> {"URLError", "OSError", "Exception"}
      [] exc = "ValueError"      -> {"ValueError", "Exception"}

\* a slip that catches the I/O errors only
CatchesOSErrorOnly(exc) == "OSError" \in ExceptionClasses(exc)

\* except Exception as e
Catches(exc) == "Exception" \in ExceptionClasses(exc)

\* a slip that leaves the pool without waiting for the results
NeverWaits(taken, n) == taken >= 0

\* the for loop over executor.map ends when every result has been taken
AllResultsTaken(taken, n) == taken = n

QueuedTask ==
    [st |-> "queued", steps |-> {}, failed_at |-> "none", logged |-> FALSE,
     runs |-> 0, writes |-> {}]

Tasks == 1..Len(pre_entries)

Running(i) == task[i].st \in {"makedirs", "download", "extract", "except", "return"}

PreHeader == <<L1, L3>>

PreLines == {L2, L4, L5}

InitPre ==
    /\ file \in {PreHeader \o d : d \in SeqsUpTo(PreLines, MaxPreDataLines)}
    /\ GsUnused
    /\ pre_pc = "start"
    /\ pre_exc = "none"
    /\ pool_size \in 1..MaxWorkers
    /\ pre_entries = <<>>
    /\ task = <<>>
    /\ collected = 0
    /\ featurizer_calls = <<>>
    /\ EvUnused

\* executor.map(Vertex._download_pdb_and_extract_pocket, self.get_structures())
PreMap ==
    /\ pre_pc = "start"
    /\ \E o \in GetStructuresOutcomes(file, FALSE) :
          IF o.status = "returned"
          THEN /\ pre_entries' = o.entries
               /\ task' = [i \in 1..Len(o.entries) |-> QueuedTask]
               /\ pre_pc' = "mapping"
               /\ pre_exc' = "none"
          ELSE /\ pre_pc' = "raised"
               /\ pre_exc' = "get_structures"
               /\ UNCHANGED <<pre_entries, task>>
    /\ UNCHANGED <<file, gsvars, evvars, pool_size, collected, featurizer_calls>>

\* a worker process takes the task of entry i from the queue
TaskStart(i) ==
    /\ pre_pc = "mapping"
    /\ task[i].st = "queued"
    /\ Cardinality({j \in Tasks : Running(j)}) < pool_size
    /\ task' = [task EXCEPT ![i].st = "makedirs", ![i].runs = @ + 1]
    /\ UNCHANGED <<file, gsvars, evvars, pre_pc, pre_exc, pool_size, pre_entries, collected, featurizer_calls>>

\* a step of the try block succeeds
TaskStep(i) ==
    /\ task[i].st \in {"makedirs", "download", "extract"}
    /\ task' = [task EXCEPT ![i].st = AfterStep(task[i].st),
                            ![i].steps = @ \cup {task[i].st},
                            ![i].writes = @ \cup StepWrites(pre_entries[i], task[i].st)]
    /\ UNCHANGED <<file, gsvars, evvars, pre_pc, pre_exc, pool_size, pre_entries, collected, featurizer_calls>>

\* a step of the try block raises
TaskStepRaises(i) ==
    /\ task[i].st \in {"makedirs", "download", "extract"}
    /\ task' = [task EXCEPT ![i].st = IF Catches(StepException(task[i].st)) THEN "except" ELSE "raised",
                            ![i].failed_at = task[i].st]
    /\ UNCHANGED <<file, gsvars, evvars, pre_pc, pre_exc, pool_size, pre_entries, collected, featurizer_calls>>

\* the except block: logger.warning and logger.exception
TaskLogs(i) ==
    /\ task[i].st = "except"
    /\ task' = [task EXCEPT ![i].st = "return", ![i].logged = TRUE]
    /\ UNCHANGED <<file, gsvars, evvars, pre_pc, pre_exc, pool_size, pre_entries, collected, featurizer_calls>>

\* return code
TaskReturns(i) ==
    /\ task[i].st = "return"
    /\ task' = [task EXCEPT ![i].st = "done"]
    /\ UNCHANGED <<file, gsvars, evvars, pre_pc, pre_exc, pool_size, pre_entries, collected, featurizer_calls>>

\* the for loop takes the next result, in the order of the entries; a result
\* that is an exception is raised in the driver
PreNextResult ==
    /\ pre_pc = "mapping"
    /\ collected < Len(pre_entries)
    /\ task[collected + 1].st \in {"done", "raised"}
    /\ IF task[collected + 1].st = "done"
       THEN /\ collected' = collected + 1
            /\ UNCHANGED <<pre_pc, pre_exc>>
       ELSE /\ pre_pc' = "raised"
            /\ pre_exc' = "task"
            /\ UNCHANGED collected
    /\ UNCHANGED <<file, gsvars, evvars, pool_size, pre_entries, task, featurizer_calls>>

\* the with block is left once the loop has ended
PreLeavePool ==
    /\ pre_pc = "mapping"
    /\ AllResultsTaken(collected, Len(pre_entries))
    /\ pre_pc' = "featurize"
    /\ UNCHANGED <<file, gsvars, evvars, pre_exc, pool_size, pre_entries, task, collected, featurizer_calls>>

\* htmd_featurizer(self.get_structures(), skip_existing=True)
PreFeaturize ==
    /\ pre_pc = "featurize"
    /\ \E o \in GetStructuresOutcomes(file, FALSE) :
          IF o.status = "returned"
          THEN /\ featurizer_calls' =
                      Append(featurizer_calls, [entries |-> o.entries, skip_existing |-> TRUE])
               /\ pre_pc' = "done"
               /\ pre_exc' = "none"
          ELSE /\ pre_pc' = "raised"
               /\ pre_exc' = "get_structures"
               /\ UNCHANGED featurizer_calls
    /\ UNCHANGED <<file, gsvars, evvars, pool_size, pre_entries, task, collected>>

NextPre ==
    \/ PreMap
    \/ \E i \in Tasks : TaskStart(i)
    \/ \E i \in Tasks : TaskStep(i)
    \/ \E i \in Tasks : TaskStepRaises(i)
    \/ \E i \in Tasks : TaskLogs(i)
    \/ \E i \in Tasks : TaskReturns(i)
    \/ PreNextResult
    \/ PreLeavePool
    \/ PreFeaturize

\* the pool runs every queued task, a started step ends, and the driver, which
\* blocks on the results, goes on when they are there
SpecPre == InitPre /\ [][NextPre]_vars /\ WF_vars(NextPre)

----------------------------------------------------------------------------
(* Properties of preprocess_once *)

AllSteps == {"makedirs", "download", "extract"}

\* C3: a failure in any step of an entry's pipeline is caught in that entry's
\* task: the task returns, nothing reaches the driver, the task is not run
\* again, and every other task goes through all of its steps.
Thm_C3 ==
    /\ pre_exc # "task"
    /\ \A i \in Tasks :
          /\ task[i].st # "raised"
          /\ task[i].runs <= 1
          /\ task[i].st \in {"return", "done"} =>
                /\ task[i].runs = 1
                /\ task[i].failed_at # "none" => task[i].logged
                /\ task[i].failed_at = "none" => task[i].steps = AllSteps
    /\ pre_pc \in {"featurize", "done"} => \A i \in Tasks : task[i].st = "done"

\* C3 witness: the run is over, a task failed in its download and was logged,
\* and the task of a later entry went through every step.
Wit_C3 ==
    /\ pre_pc = "done"
    /\ \E i, k \in Tasks :
          /\ i < k
          /\ task[i].failed_at = "download" /\ task[i].logged /\ task[i].st = "done"
          /\ task[k].failed_at = "none" /\ task[k].steps = AllSteps

EntrySet(entries) == {entries[k] : k \in 1..Len(entries)}

\* C4, the part every state shows: at most one featurizer call, made only
\* when every task has ended, over the full entry list, with skip_existing.
FeaturizerOnceAfterAll ==
    /\ Len(featurizer_calls) <= 1
    /\ pre_pc = "done" => Len(featurizer_calls) = 1
    /\ \A c \in 1..Len(featurizer_calls) :
          /\ \A i \in Tasks : task[i].st = "done"
          /\ featurizer_calls[c].skip_existing
          /\ EntrySet(featurizer_calls[c].entries) = EntrySet(pre_entries)
          /\ EntryTuples(featurizer_calls[c].entries) = FileTuples(file)
          /\ Len(featurizer_calls[c].entries) = Len(pre_entries)

\* C4: the featurizer is called exactly once, over the full entry list with
\* skip_existing, only after every per-entry task has ended, and the call is
\* reached from every run whose tasks were handed to the pool, failed or not.
Thm_C4 ==
    /\ []FeaturizerOnceAfterAll
    /\ (pre_pc = "mapping") ~> (pre_pc = "done" /\ Len(featurizer_calls) = 1)

\* C4 witness: the featurizer has been called in a run where a task failed.
Wit_C4 ==
    /\ Len(featurizer_calls) = 1
    /\ Len(pre_entries) >= 2
    /\ \E i \in Tasks : task[i].failed_at # "none"

\* the files a task has written: its directory, which makedirs creates with
\* exist_ok, is left aside
FileWrites(i) == task[i].writes \ {EntryDir(pre_entries[i])}

\* C5: two tasks that run at the same time for distinct entries never write
\* the same path.  Already the files collide, the directories left aside.
Claim_C5 ==
    \A i, j \in Tasks :
        (i # j /\ pre_entries[i] # pre_entries[j] /\ Running(i) /\ Running(j)) =>
            FileWrites(i) \cap FileWrites(j) = {}

----------------------------------------------------------------------------
(* evaluate_matching *)

\* scores: a finite number, nan or inf
Fin(n) == [kind |-> "fin", v |-> n]
NaN    == [kind |-> "nan", v |-> 0]
Inf    == [kind |-> "inf", v |-> 0]

\* a slip that screens out nan only
IsNotNan(x) == x.kind # "nan"

\* np.isfinite
IsFinite(x) == x.kind = "fin"

\* Python's x > y on floats: nothing compares with nan, inf is above every
\* finite number
Gt(x, y) ==
    CASE x.kind = "nan" \/ y.kind = "nan" -> FALSE
      [] x.kind = "inf" -> y.kind = "fin"
      [] y.kind = "inf" -> FALSE
      [] OTHER -> x.v > y.v

RECURSIVE MaxFrom(_, _)
MaxFrom(best, rest) ==
    IF rest = <<>> THEN best
    ELSE MaxFrom(IF Gt(Head(rest), best) THEN Head(rest) ELSE best, Tail(rest))

\* max(sel_scores) of a non-empty list: the first of the largest items
PyMax(sel_scores) == MaxFrom(Head(sel_scores), Tail(sel_scores))

\* a slip that gives max a default
MaxOfEmptyIsDefault(sel_scores) == FALSE

\* max() of an empty list raises ValueError
MaxRaises(sel_scores) == sel_scores = <<>>

\* the stub matchers: an asymmetric finite score for a pair of entries, and
\* pairs the matcher cannot compare (nan, or inf)
Matchers == {0, 1, 2}

CodeNum(code5) ==
    CASE code5 = Lower(Code_1abcA1) -> 1
      [] code5 = Lower(Code_1ABCA2) -> 2
      [] code5 = Lower(Code_2xyzB1) -> 3
      [] OTHER -> 4

PairScore(m, a, b) ==
    LET na == CodeNum(a)
        nb == CodeNum(b)
    IN  IF (na + nb + m) % 3 = 0
        THEN (IF na > nb THEN Inf ELSE NaN)
        ELSE Fin(2 * na + nb)

\* matcher.complete_match(entries): the square matrix of pairwise scores
CompleteMatch(m, entries) ==
    [p \in 1..Len(entries) |-> [q \in 1..Len(entries) |-> PairScore(m, entries[p], entries[q])]]

\* target_dict = {d['code5']: i for i, d in enumerate(descriptor_entries)}:
\* of two entries with one code the later one stays
InTarget(desc, code5) == \E i \in 1..Len(desc) : desc[i] = code5

TargetIndex(desc, code5) ==
    CHOOSE i \in 1..Len(desc) : desc[i] = code5 /\ \A j \in 1..Len(desc) : desc[j] = code5 => j <= i

\* a slip that keeps the ids in the order of the line
ProteinPairKeyAsRead(id1, id2) == <<id1, id2>>

\* key = (id1, id2) if id1 < id2 else (id2, id1)
ProteinPairKey(id1, id2) == IF StrLess(id1, id2) THEN <<id1, id2>> ELSE <<id2, id1>>

\* cls == 1
IsPositive(cls) == cls = 1

\* unique_idxs.index(x)
RECURSIVE IndexFrom(_, _, _)
IndexFrom(list, x, k) == IF list[k] = x THEN k ELSE IndexFrom(list, x, k + 1)

IndexOf(list, x) == IndexFrom(list, x, 1)

\* a slip that reads the matrix the other way round
SelectCellTransposed(matrix, i, j) == matrix[j][i]

\* complete_scores[i, j]
SelectCell(matrix, i, j) == matrix[i][j]

\* [x for x in list if keep(x)]
RECURSIVE FiniteOnly(_)
FiniteOnly(list) ==
    IF list = <<>> THEN <<>>
    ELSE (IF IsFinite(Head(list)) THEN <<Head(list)>> ELSE <<>>) \o FiniteOnly(Tail(list))

DescCodes == {Lower(Code_1abcA1), Lower(Code_1ABCA2), Lower(Code_2xyzB1)}

\* the descriptor lists: every ordering of every subset of the codes, and
\* lists in which a code occurs twice
DescriptorLists ==
    UNION {Orderings(S) : S \in SUBSET DescCodes}
        \cup {<<Lower(Code_1abcA1), Lower(Code_2xyzB1), Lower(Code_1abcA1), Lower(Code_1ABCA2)>>}

EvalHeader == <<L6, L3>>

EvalLines == {L1, L2, L3, L4}

InitEval ==
    /\ file \in {EvalHeader \o d : d \in SeqsUpTo(EvalLines, MaxEvalDataLines)}
    /\ descriptor_entries \in DescriptorLists
    /\ matcher \in Matchers
    /\ EvState("parse")
    /\ GsUnused
    /\ PreUnused

evloop2 == <<ev_k, positives, scores, keys_out, calls, unique_idxs, complete_scores, cells, results>>

\* one iteration of the loop over the lines of the file
EvReadLine ==
    /\ ev_pc = "parse"
    /\ ev_i < Len(file)
    /\ ev_i' = ev_i + 1
    /\ LET k    == ev_i + 1
           pdb1 == Lower(file[k].tok0)
           id1  == file[k].tok2
           pdb2 == Lower(file[k].tok5)
           id2  == file[k].tok7
           cls  == file[k].cls
           key  == ProteinPairKey(id1, id2)
       IN  IF k \in DataLines(file) /\ InTarget(descriptor_entries, pdb1)
                                     /\ InTarget(descriptor_entries, pdb2)
           THEN /\ prot_pairs' =
                     (key :> ((IF key \in DOMAIN prot_pairs THEN prot_pairs[key] ELSE <<>>)
                                \o <<<<TargetIndex(descriptor_entries, pdb1),
                                       TargetIndex(descriptor_entries, pdb2)>>>>)) @@ prot_pairs
                /\ prot_keys' = IF key \in DOMAIN prot_pairs THEN prot_keys ELSE Append(prot_keys, key)
                /\ IF key \in DOMAIN prot_positives
                   THEN /\ UNCHANGED prot_positives
                        /\ IF prot_positives[key] = IsPositive(cls)
                           THEN UNCHANGED <<ev_pc, ev_exc>>
                           ELSE ev_pc' = "raised" /\ ev_exc' = "AssertionError"
                   ELSE /\ prot_positives' = (key :> IsPositive(cls)) @@ prot_positives
                        /\ UNCHANGED <<ev_pc, ev_exc>>
           ELSE UNCHANGED <<prot_pairs, prot_keys, prot_positives, ev_pc, ev_exc>>
    /\ UNCHANGED <<file, gsvars, prevars, descriptor_entries, matcher, evloop2>>

\* the file is read: the loop over prot_pairs.items() starts
EvEndOfFile ==
    /\ ev_pc = "parse"
    /\ ev_i = Len(file)
    /\ ev_pc' = "keys"
    /\ UNCHANGED <<file, gsvars, prevars, descriptor_entries, matcher, ev_exc, ev_i, prot_keys,
                   prot_pairs, prot_positives, evloop2>>

\* one iteration of the loop over the protein pairs
EvKey ==
    /\ ev_pc = "keys"
    /\ ev_k < Len(prot_keys)
    /\ LET key       == prot_keys[ev_k + 1]
           pdb_pairs == prot_pairs[key]
           idxs      == {pdb_pairs[n][1] : n \in 1..Len(pdb_pairs)}
                            \cup {pdb_pairs[n][2] : n \in 1..Len(pdb_pairs)}
       IN  \E u \in Orderings(idxs) :
             LET entries == [p \in 1..Len(u) |-> descriptor_entries[u[p]]]
                 matrix  == CompleteMatch(matcher, entries)
                 picked  == [n \in 1..Len(pdb_pairs) |->
                                SelectCell(matrix, IndexOf(u, pdb_pairs[n][1]),
                                                   IndexOf(u, pdb_pairs[n][2]))]
                 sel_scores == FiniteOnly(picked)
             IN  /\ unique_idxs' = u
                 /\ calls' = Append(calls, [key |-> key, entries |-> u])
                 /\ complete_scores' = matrix
                 /\ cells' = picked
                 /\ positives' = Append(positives, prot_positives[key])
                 /\ keys_out' = Append(keys_out, key)
                 /\ IF MaxRaises(sel_scores)
                    THEN /\ ev_pc' = "raised"
                         /\ ev_exc' = "ValueError"
                         /\ UNCHANGED <<scores, ev_k>>
                    ELSE /\ scores' = Append(scores, IF sel_scores = <<>> THEN NaN ELSE PyMax(sel_scores))
                         /\ ev_k' = ev_k + 1
                         /\ UNCHANGED <<ev_pc, ev_exc>>
    /\ UNCHANGED <<file, gsvars, prevars, descriptor_entries, matcher, ev_i, prot_keys,
                   prot_pairs, prot_positives, results>>

BothClasses(labels) ==
    /\ \E n \in 1..Len(labels) : labels[n]
    /\ \E n \in 1..Len(labels) : ~labels[n]

\* the metrics are computed and the results returned
EvMetricsReturns ==
    /\ ev_pc = "keys"
    /\ ev_k = Len(prot_keys)
    /\ positives # <<>>
    /\ ev_pc' = "returned"
    /\ results' = [pairs |-> keys_out, scores |-> scores, pos_mask |-> positives]
    /\ UNCHANGED <<file, gsvars, prevars, descriptor_entries, matcher, ev_exc, ev_i, prot_keys,
                   prot_pairs, prot_positives, ev_k, positives, scores, keys_out, calls,
                   unique_idxs, complete_scores, cells>>

\* roc_curve and roc_auc_score need both labels among the positives
EvMetricsRaises ==
    /\ ev_pc = "keys"
    /\ ev_k = Len(prot_keys)
    /\ ~BothClasses(positives)
    /\ ev_pc' = "raised"
    /\ ev_exc' = "MetricsError"
    /\ UNCHANGED <<file, gsvars, prevars, descriptor_entries, matcher, ev_i, prot_keys,
                   prot_pairs, prot_positives, evloop2>>

NextEval == EvReadLine \/ EvEndOfFile \/ EvKey \/ EvMetricsReturns \/ EvMetricsRaises

SpecEval == InitEval /\ [][NextEval]_vars

----------------------------------------------------------------------------
(* Properties of evaluate_matching *)

\* the data lines whose two structure codes are in the descriptor index
Indexed(k) ==
    /\ k \in 3..Len(file)
    /\ \E i \in 1..Len(descriptor_entries) : descriptor_entries[i] = Lower(file[k].tok0)
    /\ \E i \in 1..Len(descriptor_entries) : descriptor_entries[i] = Lower(file[k].tok5)

IndexedLines == {k \in 1..Len(file) : Indexed(k)}

\* two lines name the same protein pair, in either order
SamePair(j, k) ==
    \/ file[j].tok2 = file[k].tok2 /\ file[j].tok7 = file[k].tok7
    \/ file[j].tok2 = file[k].tok7 /\ file[j].tok7 = file[k].tok2

\* the line names the protein pair of a key
LineOfKey(k, key) ==
    \/ file[k].tok2 = key[1] /\ file[k].tok7 = key[2]
    \/ file[k].tok2 = key[2] /\ file[k].tok7 = key[1]

LabelConflict(j, k) ==
    /\ file[j].cls = 1 /\ file[k].cls # 1
    /\ SamePair(j, k)
    /\ Indexed(j) /\ Indexed(k)

\* C1: when two indexed data lines name the same protein pair, in either
\* order, one with class 1 and one with another class, the evaluation ends
\* in the assertion's error, at the latest when it reads the second of them,
\* and returns nothing.
Thm_C1 ==
    \A j, k \in 3..Len(file) :
        LabelConflict(j, k) =>
            /\ ev_pc \in {"parse", "raised"}
            /\ results = NoResults
            /\ ev_pc = "raised" => ev_exc = "AssertionError"
            /\ (ev_i >= j /\ ev_i >= k) => ev_pc = "raised"

\* C1 witness: the evaluation has ended in the assertion's error on two lines
\* that name the pair in opposite orders.
Wit_C1 ==
    /\ ev_pc = "raised" /\ ev_exc = "AssertionError"
    /\ \E j, k \in 3..Len(file) :
          /\ LabelConflict(j, k)
          /\ file[j].tok2 = file[k].tok7 /\ file[j].tok2 # file[k].tok2

\* the matcher's scores of the structure pairs of a key, and the finite ones
KeyScores(key) ==
    {PairScore(matcher, Lower(file[k].tok0), Lower(file[k].tok5)) :
         k \in {l \in IndexedLines : LineOfKey(l, key)}}

FiniteKeyScores(key) == {x \in KeyScores(key) : x.kind = "fin"}

\* the protein pairs of the indexed data lines
FilePairs == {<<file[k].tok2, file[k].tok7>> : k \in IndexedLines}

\* C2: in a returned result the three lists run in step: position n holds a
\* key, the largest finite matcher score of that key's structure pairs, and
\* the key's label; every protein pair of the file is there once.
Thm_C2 ==
    ev_pc = "returned" =>
        /\ Len(results.pairs) = Len(results.scores)
        /\ Len(results.pairs) = Len(results.pos_mask)
        /\ \A n \in 1..Len(results.pairs) :
              LET key == results.pairs[n]
              IN  /\ results.scores[n] \in FiniteKeyScores(key)
                  /\ \A x \in FiniteKeyScores(key) : x.v <= results.scores[n].v
                  /\ \E k \in IndexedLines :
                        LineOfKey(k, key) /\ results.pos_mask[n] = (file[k].cls = 1)
                  /\ \A m \in 1..Len(results.pairs) : results.pairs[m] = key => m = n
        /\ \A pr \in FilePairs : \E n \in 1..Len(results.pairs) :
              results.pairs[n] \in {pr, <<pr[2], pr[1]>>}

\* C2 witness: a returned result whose last key had the selected scores
\* finite, non-finite, finite, and kept the finite one.
Wit_C2 ==
    /\ ev_pc = "returned"
    /\ Len(cells) = 3
    /\ cells[1].kind = "fin" /\ cells[2].kind = "inf" /\ cells[3].kind = "fin"
    /\ results.scores[Len(results.scores)] = cells[1]

\* the keys the second loop has gone through
KeysDone == {keys_out[n] : n \in 1..Len(keys_out)}

\* C9: a key all of whose selected scores are non-finite ends the evaluation
\* in an error: nothing is returned, no score is recorded for the key and the
\* metrics are not reached.
Thm_C9 ==
    \A key \in KeysDone :
        FiniteKeyScores(key) = {} =>
            /\ ev_pc = "raised" /\ ev_exc = "ValueError"
            /\ results = NoResults
            /\ Len(scores) < Len(keys_out)
            /\ key = keys_out[Len(keys_out)]

\* C9 witness: the evaluation has ended in the error of max() on a key that
\* follows a key with a finite score.
Wit_C9 ==
    /\ ev_pc = "raised" /\ ev_exc = "ValueError"
    /\ Len(keys_out) = 2
    /\ FiniteKeyScores(keys_out[2]) = {}
    /\ KeyScores(keys_out[2]) # {}

\* the indexed lines of a key, in the order of the file
RECURSIVE LinesOfKeyFrom(_, _)
LinesOfKeyFrom(key, k) ==
    IF k > Len(file) THEN <<>>
    ELSE (IF Indexed(k) /\ LineOfKey(k, key) THEN <<k>> ELSE <<>>) \o LinesOfKeyFrom(key, k + 1)

\* the last position of a code in the descriptor list
LastIndex(code5) ==
    CHOOSE i \in 1..Len(descriptor_entries) :
        /\ descriptor_entries[i] = code5
        /\ \A j \in (i + 1)..Len(descriptor_entries) : descriptor_entries[j] # code5

\* C10: complete_match is called once per protein pair, on the duplicate-free
\* list of the entries the pair's structure pairs refer to, and the score
\* taken for a structure pair (a, b), a and b in the order of the line, is the
\* cell at the positions of a and b in that list: the matcher's score of
\* entry a against entry b.
Thm_C10 ==
    /\ Len(calls) = Len(keys_out)
    /\ \A n \in 1..Len(calls) :
          /\ calls[n].key = keys_out[n]
          /\ \A m \in 1..Len(calls) : calls[m].key = calls[n].key => m = n
          /\ \A p, q \in 1..Len(calls[n].entries) :
                calls[n].entries[p] = calls[n].entries[q] => p = q
          /\ {calls[n].entries[p] : p \in 1..Len(calls[n].entries)} =
                UNION {{LastIndex(Lower(file[k].tok0)), LastIndex(Lower(file[k].tok5))} :
                          k \in {l \in IndexedLines : LineOfKey(l, calls[n].key)}}
    /\ ev_pc = "returned" =>
          \A pr \in FilePairs : \E n \in 1..Len(calls) : calls[n].key \in {pr, <<pr[2], pr[1]>>}
    /\ calls # <<>> =>
          LET key   == calls[Len(calls)].key
              lines == LinesOfKeyFrom(key, 1)
          IN  /\ unique_idxs = calls[Len(calls)].entries
              /\ Len(cells) = Len(lines)
              /\ \A n \in 1..Len(cells) :
                    LET a == LastIndex(Lower(file[lines[n]].tok0))
                        b == LastIndex(Lower(file[lines[n]].tok5))
                    IN  /\ \E i, j \in 1..Len(unique_idxs) :
                              /\ unique_idxs[i] = a /\ unique_idxs[j] = b
                              /\ cells[n] = complete_scores[i][j]
                        /\ cells[n] = PairScore(matcher, descriptor_entries[a], descriptor_entries[b])

\* C10 witness: a call on three entries listed in an order other than that of
\* the descriptor list, for a key with two structure pairs.
Wit_C10 ==
    /\ calls # <<>>
    /\ Len(unique_idxs) = 3
    /\ unique_idxs[1] > unique_idxs[2]
    /\ Len(cells) >= 2
    /\ cells[1] # cells[2]

====
